---- MODULE Spec2Model ----
(***************************************************************************)
(* Model of the Foundry-Local hybrid services:                             *)
(*   - monitoring/dashboard.py: FoundryDashboard, its registry of          *)
(*     websocket viewers (connected_websockets), the per-viewer push loop  *)
(*     of websocket_endpoint, collect_metrics and the GET routes;          *)
(*   - ai-copilot/foundry_copilot.py: FoundryCopilot and POST /analyze.    *)
(* Each websocket connection runs its own websocket_endpoint coroutine on  *)
(* one asyncio event loop: code between two suspension points (await       *)
(* accept, await send_text, await asyncio.sleep) is one atomic action.     *)
(***************************************************************************)
EXTENDS Integers, Sequences, FiniteSets, TLC

\* ------------------------------------------------------------------ bounds
\* Number of websocket handles (each connection is a fresh WebSocket object).
NumViewers == 2
\* Last clock reading of the model; time advances in whole seconds.
MaxTime == 6
\* Longest contract text, in words, sent to POST /analyze.
MaxCodeLen == 1

\* -------------------------------------------------------- program constants
\* asyncio.sleep(5): the period of the per-viewer push loop.
Period == 5

Viewers == 1..NumViewers
Times == 0..MaxTime

\* ------------------------------------------------------------ Python values
\* A Python value of the shapes the snapshot uses: str, int, or dict. A dict is
\* its items in insertion order, a sequence of <<key, value>>.
PyStr(s) == [ty |-> "str", s |-> s, n |-> 0, d |-> <<>>]
PyInt(i) == [ty |-> "int", s |-> "", n |-> i, d |-> <<>>]
PyDict(items) == [ty |-> "dict", s |-> "", n |-> 0, d |-> items]

DictKeys(v) == [i \in 1..Len(v.d) |-> v.d[i][1]]
HasKey(v, k) == \E i \in 1..Len(v.d) : v.d[i][1] = k
DictGet(v, k) == v.d[CHOOSE i \in 1..Len(v.d) : v.d[i][1] = k][2]

\* ---------------------------------------------------------- f-string output
Digits == <<"0", "1", "2", "3", "4", "5", "6", "7", "8", "9">>

RECURSIVE IntToStr(_)
IntToStr(i) ==
    IF i < 10 THEN Digits[i + 1]
    ELSE IntToStr(i \div 10) \o Digits[(i % 10) + 1]

Pad2(i) == IF i < 10 THEN "0" \o IntToStr(i) ELSE IntToStr(i)

\* f"{x:.1f}" of a value given in tenths (all operands are multiples of 0.1).
Fmt1(tenths) == IntToStr(tenths \div 10) \o "." \o Digits[(tenths % 10) + 1]
\* f"{x:.0f}" of a whole value.
Fmt0(whole) == IntToStr(whole)

\* datetime.now().isoformat() of clock reading t (seconds into the first day).
IsoFormat(t) ==
    "1970-01-01T" \o Pad2((t % 86400) \div 3600) \o ":"
        \o Pad2((t % 3600) \div 60) \o ":" \o Pad2(t % 60)

\* ------------------------------------------------------------ metric groups
\* Each takes the value of time.time() (whole seconds t). x % 0.5 and x % 0.8
\* are computed on tenths: (10 * t) % 5 and (10 * t) % 8.
_infrastructure_metrics(t) ==
    PyDict(<<
        <<"anvil_rpc_latency", PyStr(Fmt1(20 + 10 * (t % 5)) \o "ms")>>,
        <<"container_memory_usage", PyStr(Fmt1(21 + ((10 * t) % 5)) \o "GB")>>,
        <<"cpu_utilization", PyStr(Fmt0(45 + (t % 20)) \o "%")>>,
        <<"disk_io", PyStr(Fmt0(150 + (t % 50)) \o "MB/s")>>,
        <<"network_throughput", PyStr(Fmt1(12 + ((10 * t) % 8)) \o "GB/s")>>,
        <<"uptime", PyStr(IntToStr((t % 86400) \div 3600) \o "h "
                          \o IntToStr((t % 3600) \div 60) \o "m")>>
    >>)

_development_metrics(t) ==
    PyDict(<<
        <<"active_projects", PyInt(15 + (t % 10))>>,
        <<"contracts_compiled", PyInt(847 + (t % 100))>>,
        <<"tests_executed", PyInt(2341 + (t % 200))>>,
        <<"deployments_today", PyInt(23 + (t % 10))>>,
        <<"gas_optimizations", PyInt(156 + (t % 50))>>,
        <<"avg_compilation_time", PyStr(Fmt1(32 + 10 * (t % 2)) \o "s")>>
    >>)

\* Mutant: a category comes back empty.
AiMetricsEmpty(t) == PyDict(<<>>)

_ai_metrics(t) ==
    PyDict(<<
        <<"copilot_interactions", PyInt(342 + (t % 50))>>,
        <<"security_scans", PyInt(89 + (t % 20))>>,
        <<"code_suggestions", PyInt(567 + (t % 100))>>,
        <<"cross_city_insights", PyInt(23 + (t % 10))>>,
        <<"template_generations", PyInt(34 + (t % 15))>>,
        <<"ai_model_status", PyStr("active")>>,
        <<"suggestion_acceptance_rate", PyStr(Fmt1(700 + 10 * (t % 20)) \o "%")>>
    >>)

_transport_metrics(t) ==
    PyDict(<<
        <<"connected_cities", PyInt(3)>>,
        <<"messages_sent", PyInt(1234 + (t % 100))>>,
        <<"messages_received", PyInt(987 + (t % 80))>>,
        <<"transport_latency", PyStr(Fmt0(85 + (t % 30)) \o "ms")>>,
        <<"knowledge_sync_rate", PyStr("99.9%")>>,
        <<"active_collaborations", PyInt(5 + (t % 3))>>
    >>)

_integration_metrics(t) ==
    PyDict(<<
        <<"district_status", PyStr("manufacturing_active")>>,
        <<"cognitive_load", PyStr(Fmt0(60 + (t % 25)) \o "%")>>,
        <<"innovation_index", PyStr(Fmt1(42 + ((10 * t) % 8)) \o "/5.0")>>,
        <<"collaboration_efficiency", PyStr(Fmt0(88 + (t % 10)) \o "%")>>,
        <<"knowledge_integration", PyStr("optimal")>>
    >>)

\* The dict collect_metrics builds at clock reading t.
MetricsAt(t) ==
    PyDict(<<
        <<"timestamp", PyStr(IsoFormat(t))>>,
        <<"infrastructure", _infrastructure_metrics(t)>>,
        <<"development", _development_metrics(t)>>,
        <<"ai_assistance", _ai_metrics(t)>>,
        <<"neural_transport", _transport_metrics(t)>>,
        <<"city_integration", _integration_metrics(t)>>
    >>)

\* --------------------------------------------------------------------- JSON
\* JSON text as its sequence of tokens: punctuation, string and number.
Punct(c) == [k |-> "punct", s |-> c, n |-> 0]
StrTok(s) == [k |-> "str", s |-> s, n |-> 0]
NumTok(i) == [k |-> "num", s |-> "", n |-> i]

RECURSIVE JsonDumps(_)
RECURSIVE DumpItems(_, _)
\* json.dumps(v): a dict is written { key : value , ... } in insertion order.
JsonDumps(v) ==
    IF v.ty = "str" THEN <<StrTok(v.s)>>
    ELSE IF v.ty = "int" THEN <<NumTok(v.n)>>
    ELSE <<Punct("{")>> \o DumpItems(v.d, 1) \o <<Punct("}")>>
DumpItems(items, i) ==
    IF i > Len(items) THEN <<>>
    ELSE (IF i > 1 THEN <<Punct(",")>> ELSE <<>>)
         \o <<StrTok(items[i][1]), Punct(":")>>
         \o JsonDumps(items[i][2])
         \o DumpItems(items, i + 1)

RECURSIVE ParseValue(_, _)
RECURSIVE ParseMembers(_, _, _)
\* JSON.parse of the browser page: the value starting at token i, and the
\* index of the first token after it.
ParseValue(toks, i) ==
    IF toks[i].k = "str" THEN [v |-> PyStr(toks[i].s), next |-> i + 1]
    ELSE IF toks[i].k = "num" THEN [v |-> PyInt(toks[i].n), next |-> i + 1]
    ELSE IF toks[i + 1] = Punct("}") THEN [v |-> PyDict(<<>>), next |-> i + 2]
    ELSE ParseMembers(toks, i + 1, <<>>)
ParseMembers(toks, i, acc) ==
    LET r == ParseValue(toks, i + 2)
        acc2 == Append(acc, <<toks[i].s, r.v>>)
    IN  IF toks[r.next] = Punct(",") THEN ParseMembers(toks, r.next + 1, acc2)
        ELSE [v |-> PyDict(acc2), next |-> r.next + 1]

JsonParse(toks) == ParseValue(toks, 1).v

\* ---------------------------------------------------------- list operations
\* list.remove(x): deletes the first item equal to x; raises ValueError (the
\* list unchanged) when there is none.
RECURSIVE IndexOf(_, _, _)
IndexOf(list, x, i) ==
    IF i > Len(list) THEN 0
    ELSE IF list[i] = x THEN i
    ELSE IndexOf(list, x, i + 1)

\* Mutants of list.remove: a finally block that removes nothing, and one that
\* pops the last item whatever the handle.
ListRemoveNoop(list, x) == [list |-> list, raised |-> FALSE]

ListRemoveLast(list, x) ==
    IF Len(list) = 0 THEN [list |-> list, raised |-> TRUE]
    ELSE [list |-> SubSeq(list, 1, Len(list) - 1), raised |-> FALSE]

ListRemove(list, x) ==
    LET i == IndexOf(list, x, 1)
    IN  IF i = 0 THEN [list |-> list, raised |-> TRUE]
        ELSE [list |-> SubSeq(list, 1, i - 1) \o SubSeq(list, i + 1, Len(list)),
              raised |-> FALSE]

\* ------------------------------------------------------------------- state
VARIABLES
    \* FoundryDashboard fields
    connected_websockets,   \* self.connected_websockets, a list of handles
    metrics,                \* self.metrics, the last collected dict
    alerts,                 \* self.alerts
    \* one websocket_endpoint coroutine per handle
    pc,                     \* where the coroutine is
    conn,                   \* the client's end of the connection
    timer,                  \* seconds left of asyncio.sleep(5)
    inflight,               \* the text handed to send_text, not yet delivered
    received,               \* the last text delivered to the client
    delivered,              \* how many texts the client has been delivered
    \* the event loop
    now,                    \* the clock read by datetime.now() and time.time()
    \* FoundryCopilot fields and its HTTP exchange
    knowledge_base,         \* self.knowledge_base
    active_projects,        \* self.active_projects
    errors_logged,          \* number of logger.error lines written
    request,                \* the last HTTP request the copilot served
    response                \* the response to it

dashVars == <<connected_websockets, metrics, alerts, pc, conn, timer,
              inflight, received, delivered, now>>
copilotVars == <<knowledge_base, active_projects, errors_logged, request,
                 response>>
vars == <<dashVars, copilotVars>>

NoText == <<>>
EmptyDict == PyDict(<<>>)
NoExchange == [route |-> "none", code |-> <<>>, fault |-> "none", status |-> 0,
               body |-> <<>>, detail |-> ""]

InRegistry(v) == \E i \in 1..Len(connected_websockets) : connected_websockets[i] = v
RegistrySet == {connected_websockets[i] : i \in 1..Len(connected_websockets)}
Occurrences(v) ==
    Cardinality({i \in 1..Len(connected_websockets) : connected_websockets[i] = v})

\* FoundryDashboard.__init__ and FoundryCopilot.__init__
DashInit ==
    /\ connected_websockets = <<>>
    /\ metrics = EmptyDict
    /\ alerts = <<>>
    /\ pc = [v \in Viewers |-> "idle"]
    /\ conn = [v \in Viewers |-> "none"]
    /\ timer = [v \in Viewers |-> 0]
    /\ inflight = [v \in Viewers |-> NoText]
    /\ received = [v \in Viewers |-> NoText]
    /\ delivered = [v \in Viewers |-> 0]
    /\ now = 0

CopilotInit ==
    /\ knowledge_base = EmptyDict
    /\ active_projects = EmptyDict
    /\ errors_logged = 0
    /\ request = NoExchange
    /\ response = NoExchange

Init == DashInit /\ CopilotInit

\* ------------------------------------------------------- dashboard actions
\* collect_metrics: builds the dict from the clock, stores it in self.metrics
\* and returns it. None of its awaits suspends.
MetricsTable == [t \in Times |-> MetricsAt(t)]
TextTable == [t \in Times |-> JsonDumps(MetricsTable[t])]
collect_metrics == MetricsTable[now]

\* Mutant: the text sent is self.metrics as it was before this collection.
CollectAndSendCached(v) ==
    /\ metrics' = collect_metrics
    /\ inflight' = [inflight EXCEPT ![v] = JsonDumps(metrics)]
    /\ pc' = [pc EXCEPT ![v] = "send"]

\* Lines 47-48 up to the suspension inside send_text: the snapshot is collected
\* and serialised, and the text is handed to the transport.
CollectAndSend(v) ==
    /\ metrics' = collect_metrics
    /\ inflight' = [inflight EXCEPT ![v] = TextTable[now]]
    /\ pc' = [pc EXCEPT ![v] = "send"]

\* A client opens a websocket to /ws: a new coroutine awaits websocket.accept().
Connect(v) ==
    /\ pc[v] = "idle"
    /\ pc' = [pc EXCEPT ![v] = "accepting"]
    /\ conn' = [conn EXCEPT ![v] = "open"]
    /\ UNCHANGED copilotVars
    /\ UNCHANGED <<connected_websockets, metrics, alerts, timer, inflight,
                   received, delivered, now>>

\* accept() returns: the handle is appended and the first snapshot is sent.
Accept(v) ==
    /\ pc[v] = "accepting"
    /\ connected_websockets' = Append(connected_websockets, v)
    /\ CollectAndSend(v)
    /\ UNCHANGED copilotVars
    /\ UNCHANGED <<alerts, conn, timer, received, delivered, now>>

\* accept() raises because the client has gone: the exception leaves the
\* coroutine before the try block, nothing was appended.
AcceptFail(v) ==
    /\ pc[v] = "accepting"
    /\ conn[v] = "closed"
    /\ pc' = [pc EXCEPT ![v] = "done"]
    /\ UNCHANGED copilotVars
    /\ UNCHANGED <<connected_websockets, metrics, alerts, conn, timer, inflight,
                   received, delivered, now>>

\* The finally block (line 53), reached from the except clause or from a
\* cancellation. A ValueError raised by remove leaves the coroutine.
Finally(v) ==
    LET r == ListRemove(connected_websockets, v)
    IN  /\ connected_websockets' = r.list
        /\ pc' = [pc EXCEPT ![v] = IF r.raised THEN "crashed" ELSE "done"]

\* Mutant: one loop over the registry sends to each viewer in turn, so a send
\* settles only when no handle registered earlier has one pending.
SendOkInTurn(v) ==
    /\ pc[v] = "send"
    /\ conn[v] = "open"
    /\ \A i \in 1..Len(connected_websockets) :
           i < IndexOf(connected_websockets, v, 1) =>
               pc[connected_websockets[i]] # "send"
    /\ received' = [received EXCEPT ![v] = inflight[v]]
    /\ delivered' = [delivered EXCEPT ![v] = delivered[v] + 1]
    /\ inflight' = [inflight EXCEPT ![v] = NoText]
    /\ pc' = [pc EXCEPT ![v] = "sleep"]
    /\ timer' = [timer EXCEPT ![v] = Period]
    /\ UNCHANGED copilotVars
    /\ UNCHANGED <<connected_websockets, metrics, alerts, conn, now>>

\* send_text completes: the client has the text; the coroutine sleeps.
SendOk(v) ==
    /\ pc[v] = "send"
    /\ conn[v] = "open"
    /\ received' = [received EXCEPT ![v] = inflight[v]]
    /\ delivered' = [delivered EXCEPT ![v] = delivered[v] + 1]
    /\ inflight' = [inflight EXCEPT ![v] = NoText]
    /\ pc' = [pc EXCEPT ![v] = "sleep"]
    /\ timer' = [timer EXCEPT ![v] = Period]
    /\ UNCHANGED copilotVars
    /\ UNCHANGED <<connected_websockets, metrics, alerts, conn, now>>

\* Mutant: the try block sits inside the loop, so a failed send is printed
\* and the loop goes on to sleep with the handle still registered.
SendFailContinue(v) ==
    /\ pc[v] = "send"
    /\ inflight' = [inflight EXCEPT ![v] = NoText]
    /\ pc' = [pc EXCEPT ![v] = "sleep"]
    /\ timer' = [timer EXCEPT ![v] = Period]
    /\ UNCHANGED copilotVars
    /\ UNCHANGED <<connected_websockets, metrics, alerts, conn, received,
                   delivered, now>>

\* send_text raises (the client has closed, or the transport failed): the
\* except clause prints, the finally block removes the handle, and the server
\* closes the connection as the coroutine returns.
SendFail(v) ==
    /\ pc[v] = "send"
    /\ Finally(v)
    /\ inflight' = [inflight EXCEPT ![v] = NoText]
    /\ conn' = [conn EXCEPT ![v] = "closed"]
    /\ UNCHANGED copilotVars
    /\ UNCHANGED <<metrics, alerts, timer, received, delivered, now>>

\* Mutant: the loop does not wait for the sleep to end.
WakeEarly(v) ==
    /\ pc[v] = "sleep"
    /\ CollectAndSend(v)
    /\ timer' = [timer EXCEPT ![v] = 0]
    /\ UNCHANGED copilotVars
    /\ UNCHANGED <<connected_websockets, alerts, conn, received, delivered, now>>

\* asyncio.sleep(5) returns: next iteration of the while loop.
Wake(v) ==
    /\ pc[v] = "sleep"
    /\ timer[v] = 0
    /\ CollectAndSend(v)
    /\ UNCHANGED copilotVars
    /\ UNCHANGED <<connected_websockets, alerts, conn, timer, received,
                   delivered, now>>

\* The client closes its end. The coroutine never calls receive, so it learns
\* of it only from its next send_text.
ClientDisconnect(v) ==
    /\ conn[v] = "open"
    /\ pc[v] \in {"accepting", "send", "sleep"}
    /\ conn' = [conn EXCEPT ![v] = "closed"]
    /\ UNCHANGED copilotVars
    /\ UNCHANGED <<connected_websockets, metrics, alerts, pc, timer, inflight,
                   received, delivered, now>>

\* One second passes.
TimeAdvance ==
    /\ now < MaxTime
    /\ now' = now + 1
    /\ timer' = [v \in Viewers |->
                    IF pc[v] = "sleep" /\ timer[v] > 0 THEN timer[v] - 1
                    ELSE timer[v]]
    /\ UNCHANGED copilotVars
    /\ UNCHANGED <<connected_websockets, metrics, alerts, pc, conn, inflight,
                   received, delivered>>

\* Mutant: serving GET /metrics also restarts every viewer's sleep.
GetMetricsRestartsSleep ==
    /\ metrics' = collect_metrics
    /\ timer' = [v \in Viewers |-> IF pc[v] = "sleep" THEN Period ELSE timer[v]]
    /\ UNCHANGED copilotVars
    /\ UNCHANGED <<connected_websockets, alerts, pc, conn, inflight, received,
                   delivered, now>>

\* GET /metrics: returns collect_metrics(), the dict it has just stored in
\* self.metrics.
GetMetrics ==
    /\ metrics' = collect_metrics
    /\ UNCHANGED copilotVars
    /\ UNCHANGED <<connected_websockets, alerts, pc, conn, timer, inflight,
                   received, delivered, now>>

\* Mutant: accept and append inside the try block, so that a cancellation
\* while accept is pending runs the finally block as well.
CancelRunsFinally(v) ==
    /\ pc[v] \in {"accepting", "send", "sleep"}
    /\ Finally(v)
    /\ inflight' = [inflight EXCEPT ![v] = NoText]
    /\ timer' = [timer EXCEPT ![v] = 0]
    /\ conn' = [conn EXCEPT ![v] = "closed"]
    /\ UNCHANGED copilotVars
    /\ UNCHANGED <<metrics, alerts, received, delivered, now>>

\* The coroutine's task is cancelled (server shutdown): CancelledError is
\* raised at the suspension point. It is not an Exception, so the except
\* clause is skipped; the finally block runs when the try block was entered.
Cancel(v) ==
    /\ pc[v] \in {"accepting", "send", "sleep"}
    /\ IF pc[v] = "accepting"
       THEN /\ pc' = [pc EXCEPT ![v] = "done"]
            /\ UNCHANGED connected_websockets
       ELSE Finally(v)
    /\ inflight' = [inflight EXCEPT ![v] = NoText]
    /\ timer' = [timer EXCEPT ![v] = 0]
    /\ conn' = [conn EXCEPT ![v] = "closed"]
    /\ UNCHANGED copilotVars
    /\ UNCHANGED <<metrics, alerts, received, delivered, now>>

ViewerStep(v) ==
    \/ Connect(v)
    \/ Accept(v)
    \/ AcceptFail(v)
    \/ SendOk(v)
    \/ SendFail(v)
    \/ Wake(v)
    \/ ClientDisconnect(v)
    \/ Cancel(v)

Next ==
    \/ \E v \in Viewers : ViewerStep(v)
    \/ TimeAdvance
    \/ GetMetrics

Spec == Init /\ [][Next]_vars

\* The event loop runs every ready coroutine, the clock advances, and the
\* transport settles every send (it completes or it raises).
ViewerProgress(v) ==
    /\ WF_vars(Accept(v))
    /\ WF_vars(SendOk(v) \/ SendFail(v))
    /\ WF_vars(Wake(v))

FairSpec ==
    /\ Spec
    /\ WF_vars(TimeAdvance)
    /\ \A v \in Viewers : ViewerProgress(v)

\* The same, except that the transport of one viewer may never settle its
\* send: that viewer's send_text stays suspended for ever.
Stalled == CHOOSE v \in Viewers : \A w \in Viewers : v <= w

FairSpecStall ==
    /\ Spec
    /\ WF_vars(TimeAdvance)
    /\ \A v \in Viewers \ {Stalled} : ViewerProgress(v)

\* The removal statement of the finally block on its own, run for any handle
\* against any registry the list type can hold without duplicates, whatever
\* the position of the coroutines.
DupFreeLists ==
    {l \in UNION {[1..n -> Viewers] : n \in 0..NumViewers} :
        \A i, j \in 1..Len(l) : i # j => l[i] # l[j]}

DisconnectInit ==
    /\ connected_websockets \in DupFreeLists
    /\ pc \in [Viewers -> {"idle", "accepting", "send", "sleep", "done"}]
    /\ metrics = EmptyDict
    /\ alerts = <<>>
    /\ conn = [v \in Viewers |-> "none"]
    /\ timer = [v \in Viewers |-> 0]
    /\ inflight = [v \in Viewers |-> NoText]
    /\ received = [v \in Viewers |-> NoText]
    /\ delivered = [v \in Viewers |-> 0]
    /\ now = 0
    /\ CopilotInit

Disconnect(v) ==
    /\ Finally(v)
    /\ UNCHANGED copilotVars
    /\ UNCHANGED <<metrics, alerts, conn, timer, inflight, received, delivered,
                   now>>

DisconnectNext == \E v \in Viewers : Disconnect(v)

DisconnectSpec == DisconnectInit /\ [][DisconnectNext]_vars

\* --------------------------------------------------------- copilot helpers
\* Contract text is a sequence of words; str.lower() maps each word, and
\* `x in code` holds when x is one of the words.
Vocabulary == {"selfdestruct", "SELFDESTRUCT", "tx.origin", "pragma solidity",
               "NatSpec", "///", "event", "uint"}

LowerWord(w) ==
    IF w = "SELFDESTRUCT" THEN "selfdestruct"
    ELSE IF w = "NatSpec" THEN "natspec"
    ELSE w

Lower(code) == [i \in 1..Len(code) |-> LowerWord(code[i])]
Contains(code, w) == \E i \in 1..Len(code) : code[i] = w

Codes == UNION {[1..n -> Vocabulary] : n \in 0..MaxCodeLen}

\* The helpers whose failure a request can meet, in call order.
Helpers == <<"_security_scan", "_gas_analysis", "_best_practices_check",
             "_generate_test_suggestions", "_share_insight">>
Faults == {"none"} \cup {Helpers[i] : i \in 1..Len(Helpers)}

_security_scan(code) ==
    (IF Contains(Lower(code), "selfdestruct")
     THEN <<[type |-> "high", issue |-> "Selfdestruct usage detected", line |-> 0,
             recommendation |-> "Consider safer alternatives to selfdestruct"]>>
     ELSE <<>>)
    \o
    (IF Contains(Lower(code), "tx.origin")
     THEN <<[type |-> "medium", issue |-> "tx.origin usage detected", line |-> 0,
             recommendation |-> "Use msg.sender instead of tx.origin"]>>
     ELSE <<>>)

_gas_analysis(code) ==
    [estimated_gas |-> 50000,
     optimization_potential |-> "15%",
     suggestions |-> <<"Use uint256 instead of smaller uints for gas efficiency",
                       "Pack struct variables to minimize storage slots",
                       "Consider using immutable variables where possible">>]

_best_practices_check(code) ==
    (IF ~Contains(Lower(code), "pragma solidity")
     THEN <<"Add pragma solidity version specification">> ELSE <<>>)
    \o
    (IF ~Contains(Lower(code), "natspec") /\ ~Contains(code, "///")
     THEN <<"Add NatSpec documentation for better readability">> ELSE <<>>)
    \o
    (IF ~Contains(Lower(code), "event")
     THEN <<"Consider adding events for better transparency">> ELSE <<>>)

_generate_test_suggestions(code) ==
    <<"Test all public/external functions",
      "Add fuzz testing for edge cases",
      "Test access control mechanisms",
      "Verify event emissions",
      "Test revert conditions">>

\* FoundryCopilot.analyze_contract: the analysis dict, or the exception of the
\* helper that failed (confidence_score 0.85 is held in hundredths).
analyze_contract(code, fault) ==
    IF fault # "none" THEN [raised |-> TRUE, error |-> fault, value |-> <<>>]
    ELSE [raised |-> FALSE, error |-> "",
          value |-> <<[security_issues |-> _security_scan(code),
                       gas_optimization |-> _gas_analysis(code),
                       best_practices |-> _best_practices_check(code),
                       test_suggestions |-> _generate_test_suggestions(code),
                       confidence_score |-> 85]>>]

\* Mutant: the except clause logs the error and answers as if nothing failed.
AnalyzeRouteSwallow(code, fault) ==
    LET r == analyze_contract(code, fault)
    IN  [status |-> 200, body |-> r.value, detail |-> "",
         logged |-> IF r.raised THEN 1 ELSE 0]

\* The POST /analyze route: try / except Exception around the analysis.
AnalyzeRoute(code, fault) ==
    LET r == analyze_contract(code, fault)
    IN  IF r.raised
        THEN [status |-> 500, body |-> <<>>, detail |-> r.error, logged |-> 1]
        ELSE [status |-> 200, body |-> r.value, detail |-> "", logged |-> 0]

\* ---------------------------------------------------------- copilot actions
\* Bound on the error lines the model lets the log grow to.
MaxErrors == 2

ProjectNames == {"vault", "token"}

Analyze(code, fault) ==
    LET out == AnalyzeRoute(code, fault)
    IN  /\ fault # "none" => errors_logged < MaxErrors
        /\ request' = [NoExchange EXCEPT !.route = "/analyze", !.code = code,
                                         !.fault = fault]
        /\ response' = [request' EXCEPT !.status = out.status, !.body = out.body,
                                        !.detail = out.detail]
        /\ errors_logged' = errors_logged + out.logged
        /\ UNCHANGED <<knowledge_base, active_projects>>
        /\ UNCHANGED dashVars

\* GET /projects
ListProjects ==
    /\ request' = [NoExchange EXCEPT !.route = "/projects"]
    /\ response' = [request' EXCEPT !.status = 200,
                                    !.body = DictKeys(active_projects)]
    /\ UNCHANGED <<knowledge_base, active_projects, errors_logged>>
    /\ UNCHANGED dashVars

\* POST /projects/{project_name}/suggestions
ProjectSuggestions(name) ==
    /\ request' = [NoExchange EXCEPT !.route = "/projects/suggestions",
                                     !.code = <<name>>]
    /\ response' =
           IF ~HasKey(active_projects, name)
           THEN [request' EXCEPT !.status = 404, !.detail = "Project not found"]
           ELSE [request' EXCEPT !.status = 200,
                                 !.body = <<"code_quality", "architecture",
                                            "testing", "deployment">>]
    /\ UNCHANGED <<knowledge_base, active_projects, errors_logged>>
    /\ UNCHANGED dashVars

CopilotNext ==
    \/ \E code \in Codes, fault \in Faults : Analyze(code, fault)
    \/ ListProjects
    \/ \E name \in ProjectNames : ProjectSuggestions(name)

CopilotSpec == Init /\ [][CopilotNext]_vars

\* ================================================================== claims
\* The clock reading at which a text was collected, and the period it falls in.
TimeOfText(text) == CHOOSE t \in Times : TextTable[t] = text
TickOfText(text) == TimeOfText(text) \div Period

Categories == {"infrastructure", "development", "ai_assistance",
               "neural_transport", "city_integration"}

\* A dict holds the five categories, each a non-empty dict.
Complete(snapshot) ==
    \A c \in Categories :
        /\ HasKey(snapshot, c)
        /\ DictGet(snapshot, c).ty = "dict"
        /\ Len(DictGet(snapshot, c).d) > 0

\* ---------------------------------------------------------------------- C1
\* C1 as stated: the registry holds exactly the handles that have connected
\* and whose client has neither disconnected nor had a delivery fail.
C1_RegistryIsLiveViewers ==
    RegistrySet = {v \in Viewers : pc[v] \in {"send", "sleep"} /\ conn[v] = "open"}

\* C1 amended: the registry holds, once each, exactly the handles whose
\* coroutine has registered and has not yet run its finally block; a viewer
\* whose delivery failed is absent, a viewer whose client disconnected stays
\* until the coroutine's next send attempt.
C1_RegistryIsRunningHandlers ==
    /\ RegistrySet = {v \in Viewers : pc[v] \in {"send", "sleep"}}
    /\ Len(connected_websockets) = Cardinality(RegistrySet)
    /\ \A v \in Viewers : pc[v] # "crashed"

C1_Witness ==
    \E v, w \in Viewers :
        /\ v # w
        /\ InRegistry(v) /\ conn[v] = "closed" /\ pc[v] = "sleep"
        /\ ~InRegistry(w) /\ pc[w] = "done" /\ delivered[w] > 0

\* ---------------------------------------------------------------------- C2
\* C2: the step in which a viewer's send fails removes that viewer from the
\* registry and changes nothing of any other viewer (membership, position in
\* its loop, timer, text in flight, texts received); afterwards every other
\* viewer still leaves its sleep and has its send settled.
C2_FailureStep ==
    \A v \in Viewers :
        (pc[v] = "send" /\ pc'[v] \notin {"send", "sleep"}) =>
            /\ ~InRegistry(v)'
            /\ \A w \in Viewers \ {v} :
                /\ InRegistry(w)' = InRegistry(w)
                /\ pc'[w] = pc[w]
                /\ timer'[w] = timer[w]
                /\ inflight'[w] = inflight[w]
                /\ received'[w] = received[w]
                /\ delivered'[w] = delivered[w]

SomeOtherEnded(w) == \E v \in Viewers \ {w} : pc[v] = "done" /\ conn[v] = "closed"

\* C2: a failed send evicts that viewer alone and the other viewers keep
\* being served on their later ticks.
C2_FailureIsolated ==
    /\ [][C2_FailureStep]_vars
    /\ \A w \in Viewers :
        /\ (SomeOtherEnded(w) /\ pc[w] = "sleep" /\ now + timer[w] <= MaxTime)
               ~> (pc[w] # "sleep")
        /\ (SomeOtherEnded(w) /\ pc[w] = "send") ~> (pc[w] # "send")

C2_Witness ==
    \E v, w \in Viewers :
        /\ v # w
        /\ pc[v] = "done" /\ ~InRegistry(v) /\ delivered[v] = 1
        /\ InRegistry(w) /\ pc[w] = "sleep" /\ delivered[w] = 2
        /\ TimeOfText(received[w]) > TimeOfText(received[v])

\* ---------------------------------------------------------------------- C3
\* C3 as stated: two viewers connected at the start of a tick (each has been
\* pushed a snapshot before) never hold different snapshots for that tick.
C3_SameSnapshotPerTick ==
    \A v, w \in Viewers :
        (/\ delivered[v] >= 2 /\ delivered[w] >= 2
         /\ TickOfText(received[v]) = TickOfText(received[w]))
            => received[v] = received[w]

\* C3 amended: each viewer is sent the snapshot its own coroutine collected at
\* the start of its own iteration, serialised at once, and receives exactly
\* that text; two viewers hold equal snapshots exactly when their coroutines
\* collected at the same clock reading.
C3_OwnSnapshotStep ==
    \A v \in Viewers :
        /\ (inflight'[v] # inflight[v] /\ inflight'[v] # NoText) =>
               /\ inflight'[v] = JsonDumps(MetricsAt(now))
               /\ metrics' = MetricsAt(now)
               /\ DictGet(JsonParse(inflight'[v]), "timestamp") = PyStr(IsoFormat(now))
        /\ (delivered'[v] # delivered[v]) => received'[v] = inflight[v]
        /\ \A w \in Viewers :
               (received'[v] # NoText /\ received'[w] # NoText) =>
                   ((received'[v] = received'[w])
                        <=> (TimeOfText(received'[v]) = TimeOfText(received'[w])))

\* C3 amended, over every step.
C3_OwnSnapshot == [][C3_OwnSnapshotStep]_vars

C3_Witness ==
    \E v, w \in Viewers :
        /\ delivered[v] >= 2 /\ delivered[w] >= 2
        /\ TickOfText(received[v]) = TickOfText(received[w])
        /\ DictGet(JsonParse(received[v]), "timestamp")
               # DictGet(JsonParse(received[w]), "timestamp")

\* ---------------------------------------------------------------------- C4
\* C4: removing a handle that is not in the registry leaves the registry
\* unchanged and raises nothing.
C4_AbsentRemovalStep ==
    \A v \in Viewers :
        (~InRegistry(v) /\ pc'[v] # pc[v]) =>
            /\ connected_websockets' = connected_websockets
            /\ pc'[v] # "crashed"

C5_DisconnectStep ==
    \A v \in Viewers :
        /\ conn[v] = "closed" =>
               (received'[v] = received[v] /\ delivered'[v] = delivered[v])
        /\ (conn[v] = "closed" /\ pc[v] = "send" /\ pc'[v] # "send") =>
               ~InRegistry(v)'
        /\ (conn[v] = "open" /\ conn'[v] = "closed" /\ pc'[v] = pc[v]) =>
               /\ connected_websockets' = connected_websockets
               /\ pc' = pc /\ timer' = timer /\ inflight' = inflight
               /\ received' = received /\ delivered' = delivered

\* C5: a disconnect takes effect no later than the viewer's next tick.
C5_DisconnectEffective ==
    /\ [][C5_DisconnectStep]_vars
    /\ \A v \in Viewers :
        (/\ conn[v] = "closed" /\ InRegistry(v)
         /\ pc[v] = "sleep" => now + timer[v] <= MaxTime)
            ~> ~InRegistry(v)

\* Two viewers were pushed a snapshot each; one disconnected; on the next tick
\* only the other was pushed one, and the first is out of the registry.
C5_Witness ==
    \E v, w \in Viewers :
        /\ v # w
        /\ delivered[v] = 1 /\ pc[v] = "done" /\ ~InRegistry(v)
        /\ delivered[w] = 2 /\ conn[w] = "open" /\ InRegistry(w)
        /\ TickOfText(received[v]) < TickOfText(received[w])

\* ---------------------------------------------------------------------- C6
\* C6: a viewer whose send never settles blocks nobody: every other
\* coroutine's pending step (accept, send, wake) stays enabled whatever the
\* stalled one does, and is taken.
C6_NeverBlocked ==
    \A w \in Viewers :
        /\ (pc[w] = "send" /\ conn[w] = "open") => ENABLED SendOk(w)
        /\ pc[w] = "send" => ENABLED SendFail(w)
        /\ pc[w] = "accepting" => ENABLED Accept(w)
        /\ (pc[w] = "sleep" /\ timer[w] = 0) => ENABLED Wake(w)
        /\ pc[w] = "idle" => ENABLED Connect(w)

\* C6: with one viewer's send stalled for ever, the others are still served
\* and new viewers are still registered.
C6_StallIsolated ==
    /\ []C6_NeverBlocked
    /\ \A w \in Viewers \ {Stalled} :
        /\ (pc[Stalled] = "send" /\ pc[w] = "send") ~> (pc[w] # "send")
        /\ (pc[Stalled] = "send" /\ pc[w] = "accepting") ~> (pc[w] # "accepting")
        /\ (pc[Stalled] = "send" /\ pc[w] = "sleep" /\ now + timer[w] <= MaxTime)
               ~> (pc[w] # "sleep")

\* The stalled viewer's first send is still pending while a viewer registered
\* after it has been pushed two snapshots, the later one a period or more
\* after the stalled text was collected.
C6_Witness ==
    \E w \in Viewers \ {Stalled} :
        /\ pc[Stalled] = "send" /\ delivered[Stalled] = 0
        /\ connected_websockets = <<Stalled, w>>
        /\ delivered[w] = 2
        /\ TimeOfText(received[w]) >= TimeOfText(inflight[Stalled]) + Period

\* ---------------------------------------------------------------------- C7
\* C7: registration is followed at once by the first send of a fresh snapshot;
\* a completed send puts the coroutine to sleep for one period and never ends
\* the loop; the next snapshot is collected only when the sleep is over, at
\* least one period after the previous one was collected; and while the
\* viewer stays the sleep ends and the send settles (within the clock's range).
C7_LoopStep ==
    \A v \in Viewers :
        /\ (~InRegistry(v) /\ InRegistry(v)') =>
               (pc'[v] = "send" /\ inflight'[v] = TextTable[now])
        /\ delivered'[v] # delivered[v] =>
               /\ delivered'[v] = delivered[v] + 1
               /\ pc[v] = "send" /\ pc'[v] = "sleep" /\ timer'[v] = Period
               /\ InRegistry(v)'
        /\ (pc[v] = "sleep" /\ pc'[v] = "send") =>
               /\ timer[v] = 0
               /\ now >= TimeOfText(received[v]) + Period
               /\ inflight'[v] = TextTable[now]
        /\ (pc[v] = "sleep" /\ pc'[v] = "sleep") =>
               timer'[v] = (IF timer[v] > now' - now
                            THEN timer[v] - (now' - now) ELSE 0)

\* C7: a connected viewer is pushed a snapshot once per period, without end.
C7_PushesRepeat ==
    /\ [][C7_LoopStep]_vars
    /\ \A v \in Viewers :
        /\ (pc[v] = "sleep" /\ now + timer[v] <= MaxTime) ~> (pc[v] # "sleep")
        /\ (pc[v] = "send") ~> (pc[v] # "send")
        /\ (pc[v] = "accepting") ~> (pc[v] # "accepting")

C7_Witness ==
    \E v \in Viewers :
        /\ delivered[v] = 2 /\ conn[v] = "open" /\ pc[v] = "sleep"
        /\ timer[v] = Period
        /\ TimeOfText(received[v]) >= Period

\* ---------------------------------------------------------------------- C8
\* C8: at every clock reading collect_metrics returns the five categories,
\* each a non-empty dict; so do self.metrics once set (the body of GET
\* /metrics) and every text pushed to a viewer, once parsed.
C8_SnapshotComplete ==
    /\ \A t \in Times : Complete(MetricsTable[t])
    /\ metrics # EmptyDict => Complete(metrics)
    /\ \A v \in Viewers :
        /\ inflight[v] # NoText => Complete(JsonParse(inflight[v]))
        /\ received[v] # NoText => Complete(JsonParse(received[v]))

C8_Witness ==
    \E v, w \in Viewers :
        /\ received[v] # NoText /\ inflight[w] # NoText
        /\ metrics # EmptyDict /\ metrics # JsonParse(inflight[w])
        /\ received[v] # inflight[w]

\* ---------------------------------------------------------------------- C9
\* A step that is GET /metrics: no coroutine moves, no client closes, the
\* clock stands.
IsGetMetricsStep ==
    /\ pc' = pc /\ conn' = conn /\ now' = now
    /\ dashVars' # dashVars

\* C9: GET /metrics can be served in every state, with or without viewers;
\* serving it stores and returns a complete snapshot of the current instant
\* and leaves the registry, the alerts and every viewer's timer, text in
\* flight and texts received as they were.
C9_GetMetricsStep ==
    IsGetMetricsStep =>
        /\ metrics' = MetricsAt(now) /\ Complete(metrics')
        /\ connected_websockets' = connected_websockets
        /\ alerts' = alerts
        /\ timer' = timer /\ inflight' = inflight
        /\ received' = received /\ delivered' = delivered

\* C9: GET /metrics is independent of the viewer registry.
C9_MetricsIndependent ==
    /\ [](ENABLED GetMetrics)
    /\ [][C9_GetMetricsStep]_vars

\* GET /metrics was served between two ticks of the only viewer.
C9_Witness ==
    \E v \in Viewers :
        /\ \A w \in Viewers \ {v} : pc[w] = "idle"
        /\ pc[v] = "sleep" /\ timer[v] \in 1..(Period - 1)
        /\ metrics = MetricsTable[now]
        /\ JsonDumps(metrics) # received[v]
        /\ now < TimeOfText(received[v]) + Period

\* --------------------------------------------------------------------- C10
\* C10: a POST /analyze request during which a helper raises is answered with
\* status 500 and no body; a request during which none raises is answered with
\* status 200 and the analysis, however many earlier requests failed; and
\* knowledge_base and active_projects stay as constructed.
C10_FailureContained ==
    /\ knowledge_base = EmptyDict
    /\ active_projects = EmptyDict
    /\ request.route = "/analyze" =>
        /\ response.route = "/analyze" /\ response.code = request.code
        /\ request.fault # "none" =>
               /\ response.status = 500
               /\ response.body = <<>>
               /\ response.detail = request.fault
               /\ errors_logged > 0
        /\ request.fault = "none" =>
               /\ response.status = 200
               /\ response.body = analyze_contract(request.code, "none").value
               /\ Len(response.body) = 1

C10_Witness ==
    /\ errors_logged = MaxErrors
    /\ request.route = "/analyze" /\ request.fault = "none"
    /\ response.status = 200
    /\ Len(response.body[1].security_issues) = 1

\* --------------------------------------------------------------------- C11
\* A coroutine is inside its try block from the append of line 43 until its
\* finally block has run.
C11_InTry(v) == pc[v] \in {"send", "sleep"}

\* No handle occurs twice, and a handle whose coroutine is inside the try
\* block occurs exactly once.
C11_HandlesUnique ==
    \A v \in Viewers :
        /\ Occurrences(v) <= 1
        /\ C11_InTry(v) => Occurrences(v) = 1

\* A step in which a coroutine leaves its try block (the finally block, from
\* the except clause or from a cancellation) finds its handle once, removes it
\* without raising, leaves no entry of it behind and touches no other entry;
\* and no step ends a coroutine with the ValueError of list.remove.
C11_RemovalStep ==
    /\ \A v \in Viewers : pc'[v] # "crashed"
    /\ \A v \in Viewers :
           (C11_InTry(v) /\ ~C11_InTry(v)') =>
               /\ Occurrences(v) = 1
               /\ pc'[v] = "done"
               /\ Occurrences(v)' = 0
               /\ Len(connected_websockets') = Len(connected_websockets) - 1
               /\ \A w \in Viewers \ {v} : Occurrences(w)' = Occurrences(w)

\* C11: in every reachable state each handle occurs at most once in
\* connected_websockets, and a coroutine that reaches its finally block finds
\* its own handle exactly once, so list.remove never raises and leaves no
\* residual entry, under every interleaving of the viewers' coroutines.
C11_RemovalSafe == [](C11_HandlesUnique) /\ [][C11_RemovalStep]_vars

\* One coroutine has run its finally block after a push that was collected
\* later than a push the other had already received, so the removal acted on
\* a registry holding both handles; the other is registered with a send
\* pending.
C11_Witness ==
    \E v, w \in Viewers :
        /\ v # w
        /\ pc[v] = "done" /\ delivered[v] > 0 /\ Occurrences(v) = 0
        /\ pc[w] = "send" /\ delivered[w] > 0 /\ Occurrences(w) = 1
        /\ TimeOfText(received[w]) < TimeOfText(received[v])

====
